---- MODULE Spec2Model ----
(***************************************************************************)
(* The race engine of race-sim (python/src): Game, Car, Obstacle, the      *)
(* controller interface and the driver loop of main.py.                    *)
(*                                                                         *)
(* Positions and speeds are reals in the source.  Here they are integers   *)
(* counted in 1/Scale of a track unit, so the collision radius 1 is Scale  *)
(* and the finish line is TRACK_LENGTH * Scale.  Car speeds are even so    *)
(* that the halving in Car.crash is exact.                                 *)
(*                                                                         *)
(* asyncio runs one callback at a time.  Game.update suspends once, at the *)
(* await of asyncio.gather; each Car.update_async task runs from its start *)
(* to the await of the controller, and from the controller's answer to its *)
(* end.  Those are the steps of the model.                                 *)
(***************************************************************************)
EXTENDS Integers, Sequences, FiniteSets, TLC

VARIABLES
    game_state,   \* Game.game_state
    tick,         \* Game.tick
    winner,       \* Game.winner: None or Some(car)
    cars,         \* Game.cars, in list order
    obstacles,    \* Game.obstacles, in list order
    pc,           \* where the caller of the engine is
    op,           \* the last engine operation called
    task,         \* per car, the state of its update_async task in the gather
    handed,       \* per car, the record its controller holds in this tick
    act,          \* per car, the action its controller returned in this tick
    pre,          \* Game.cars as of the start of the tick in progress
    choices,      \* draws and choices off the quiet course so far
    inits,        \* calls of initialize so far
    num_lanes,    \* config.NUM_LANES as the engine was started with
    snapshot      \* the last get_state_snapshot a caller holds: None or Some(s)

\* ------------------------------------------------------------------ bounds
\* Track length in track units (config.py sets 30; the model races a short track).
TRACK_LENGTH == 2
\* Position units per track unit.
Scale == 40
\* Random draws and controller choices off the default course in one run: a car
\* speed other than MinSpeed, a spawned obstacle, a lane-change decision, a
\* controller call that suspends, a controller that writes into its record, a
\* snapshot taken.
MaxChoices == 2
\* Calls of Game.initialize on one engine.
MaxInits == 2

\* --------------------------------------------------------------- constants
NUM_LANES == 4
starting_lanes == <<0, 1, 2, 3>>

TrackEnd == TRACK_LENGTH * Scale
CollisionRadius == Scale

\* random.random() * 1.5 + 0.5: every speed s with 0.5 <= s < 2.0.
CarSpeedRange == {s \in 1..(2 * Scale) : 2 * s >= Scale /\ s < 2 * Scale}
\* The least even speed of the range.
MinSpeed == 2 * ((Scale + 3) \div 4)
\* The speeds the model draws: two slow cars that reach the line in the same
\* tick, and a fast one that is there while the slow ones are on their way.
CarSpeeds == {MinSpeed, MinSpeed + 2, 2 * Scale - 2} \cap CarSpeedRange

\* random.random() * 0.5, for a moving obstacle: every speed v with 0 <= v < 0.5.
ObstacleSpeedRange == {v \in 0..Scale : 2 * v < Scale}
\* The speed the model draws: 0.4, which takes an obstacle to the very end of the
\* base track in a whole number of updates.
ObstacleSpeeds == {(2 * Scale) \div 5} \cap ObstacleSpeedRange

None == << >>
Some(x) == <<x>>

Lanes == 0..(num_lanes - 1)

\* ------------------------------------------------------------ controllers
Stay == [type |-> "stay", direction |-> 0]
LaneChange(d) == [type |-> "lane_change", direction |-> d]
NoAction == [type |-> "none", direction |-> 0]
\* What RandomController.decide_action may return.
Actions == {Stay, LaneChange(-1), LaneChange(1)}

\* ------------------------------------------------------------------- Car
Car(id, lane, speed) ==
    [id |-> id, lane |-> lane, position |-> 0, speed |-> speed, status |-> "active"]

\* A faulty move_down: the car stops where its speed takes it, past the line too.
move_down_unclamped(c) ==
    IF c.status # "active" THEN c
    ELSE IF c.position + c.speed >= TrackEnd
         THEN [c EXCEPT !.position = c.position + c.speed, !.status = "finished"]
         ELSE [c EXCEPT !.position = c.position + c.speed]

\* A faulty move_down: the car advances by half its speed.
move_down_slow(c) ==
    IF c.status # "active" THEN c
    ELSE IF c.position + (c.speed \div 2) >= TrackEnd
         THEN [c EXCEPT !.position = TrackEnd, !.status = "finished"]
         ELSE [c EXCEPT !.position = c.position + (c.speed \div 2)]

move_down(c) ==
    IF c.status # "active" THEN c
    ELSE IF c.position + c.speed >= TrackEnd
         THEN [c EXCEPT !.position = TrackEnd, !.status = "finished"]
         ELSE [c EXCEPT !.position = c.position + c.speed]

\* A faulty switch_lane: past the last lane the car comes back in the first, and
\* the other way round.
switch_lane_wraps(c, direction) ==
    IF c.status # "active" THEN c
    ELSE [c EXCEPT !.lane = (c.lane + direction) % num_lanes]

\* A faulty switch_lane: the status of the car is not looked at.
switch_lane_any_status(c, direction) ==
    IF 0 <= c.lane + direction /\ c.lane + direction < num_lanes
    THEN [c EXCEPT !.lane = c.lane + direction]
    ELSE c

switch_lane(c, direction) ==
    IF c.status # "active" THEN c
    ELSE IF 0 <= c.lane + direction /\ c.lane + direction < num_lanes
         THEN [c EXCEPT !.lane = c.lane + direction]
         ELSE c

Abs(x) == IF x < 0 THEN -x ELSE x

\* A faulty check_collision: an obstacle at a distance of exactly 1 is hit too.
check_collision_touching(c, obs) ==
    IF c.status # "active" THEN FALSE
    ELSE \E i \in 1..Len(obs) :
            /\ obs[i].lane = c.lane
            /\ Abs(obs[i].position - c.position) <= CollisionRadius

check_collision(c, obs) ==
    IF c.status # "active" THEN FALSE
    ELSE \E i \in 1..Len(obs) :
            /\ obs[i].lane = c.lane
            /\ Abs(obs[i].position - c.position) < CollisionRadius

\* A faulty crash: the car keeps its speed.
crash_keeps_speed(c) == [c EXCEPT !.status = "crashed"]

\* A faulty crash: the car is also thrown back by its speed.
crash_thrown_back(c) ==
    [c EXCEPT !.status = "crashed", !.speed = c.speed \div 2,
              !.position = IF c.position > c.speed THEN c.position - c.speed ELSE 0]

crash(c) == [c EXCEPT !.status = "crashed", !.speed = c.speed \div 2]

\* A faulty get_state: the record is taken after the car has moved.
get_state_after_move(c) ==
    [id |-> c.id, lane |-> c.lane, position |-> move_down(c).position,
     speed |-> c.speed, status |-> move_down(c).status]

get_state(c) ==
    [id |-> c.id, lane |-> c.lane, position |-> c.position,
     speed |-> c.speed, status |-> c.status]

\* A faulty execute_action: the car moves first and changes lane after.
execute_action_move_first(c, action) ==
    IF action.type = "lane_change"
    THEN switch_lane(move_down(c), action.direction)
    ELSE move_down(c)

\* The part of update_async after the controller answered.
execute_action(c, action) ==
    move_down(IF action.type = "lane_change"
              THEN switch_lane(c, action.direction)
              ELSE c)

\* A faulty apply_update: a lane change is refused when another active car is
\* in the lane asked for.
apply_update_blocked(cs, k, action) ==
    [cs EXCEPT ![k] =
        IF /\ action.type = "lane_change"
           /\ \E j \in DOMAIN cs :
                 /\ j # k
                 /\ cs[j].status = "active"
                 /\ cs[j].lane = cs[k].lane + action.direction
        THEN move_down(cs[k])
        ELSE execute_action(cs[k], action)]

\* Car.update_async of car k once its controller answered: it writes car k only.
apply_update(cs, k, action) == [cs EXCEPT ![k] = execute_action(cs[k], action)]

\* The cars after a controller wrote `r` into the record it was handed for car k:
\* get_state builds a new dict of numbers and strings, so no car changes.
cars_after_policy_write(cs, k, r) == cs

\* -------------------------------------------------------------- Obstacle
Obstacle(lane, position, type, speed) ==
    [lane |-> lane, position |-> position, type |-> type, speed |-> speed]

\* A faulty Obstacle.update: an obstacle of either kind drifts on, a static one
\* by one position unit.
obstacle_update_drift(o) ==
    [o EXCEPT !.position = o.position + (IF o.type = "moving" THEN o.speed ELSE 1)]

obstacle_update(o) ==
    IF o.type = "moving" THEN [o EXCEPT !.position = o.position + o.speed] ELSE o

\* A faulty is_off_track: an obstacle at the very end of the track is off it.
is_off_track_at_end(o, track_end) == o.position < 0 \/ o.position >= track_end

is_off_track(o, track_end) == o.position < 0 \/ o.position > track_end

\* Every obstacle Obstacle.create_random(position) may build.
create_random(position) ==
    {Obstacle(l, position, "static", 0) : l \in Lanes}
    \cup {Obstacle(l, position, "moving", v) : l \in Lanes, v \in ObstacleSpeeds}

\* ------------------------------------------------------------------ Game
NotOffTrack(o) == ~is_off_track(o, TrackEnd)

update_obstacles(obs) ==
    SelectSeq([i \in 1..Len(obs) |-> obstacle_update(obs[i])], NotOffTrack)

\* A faulty check_collisions: a car of any status that is near an obstacle in
\* its lane is crashed.
check_collisions_any_status(cs, obs) ==
    [k \in 1..Len(cs) |->
        IF \E i \in 1..Len(obs) :
              /\ obs[i].lane = cs[k].lane
              /\ Abs(obs[i].position - cs[k].position) < CollisionRadius
        THEN crash(cs[k]) ELSE cs[k]]

check_collisions(cs, obs) ==
    [k \in 1..Len(cs) |->
        IF cs[k].status = "active" /\ check_collision(cs[k], obs)
        THEN crash(cs[k]) ELSE cs[k]]

FinishedIdx(cs) == {k \in 1..Len(cs) : cs[k].status = "finished"}

Min(S) == CHOOSE x \in S : \A y \in S : x <= y

\* A faulty finished_car: the fastest finished car, not the first one.
finished_car_fastest(cs) ==
    IF FinishedIdx(cs) = {} THEN None
    ELSE Some(cs[CHOOSE k \in FinishedIdx(cs) :
                    \A j \in FinishedIdx(cs) :
                        \/ cs[k].speed > cs[j].speed
                        \/ cs[k].speed = cs[j].speed /\ k <= j])

\* next((car for car in self.cars if car.status == 'finished'), None)
finished_car(cs) ==
    IF FinishedIdx(cs) = {} THEN None ELSE Some(cs[Min(FinishedIdx(cs))])

\* A faulty all_crashed: one crashed car is enough.
all_crashed_some(cs) == \E k \in 1..Len(cs) : cs[k].status = "crashed"

\* all(car.status == 'crashed' for car in self.cars)
all_crashed(cs) == \A k \in 1..Len(cs) : cs[k].status = "crashed"

\* A faulty check_win_condition: the race goes on while a car is active.
check_win_condition_waits(cs, gs, w) ==
    IF \E k \in 1..Len(cs) : cs[k].status = "active"
    THEN [game_state |-> gs, winner |-> w]
    ELSE [game_state |-> "finished", winner |-> finished_car(cs)]

\* The game_state and winner check_win_condition leaves.
check_win_condition(cs, gs, w) ==
    IF finished_car(cs) # None
    THEN [game_state |-> "finished", winner |-> finished_car(cs)]
    ELSE IF all_crashed(cs)
         THEN [game_state |-> "finished", winner |-> None]
         ELSE [game_state |-> gs, winner |-> w]

\* A faulty not_running: only the finished phase returns early.
not_running_only_finished(gs) == gs = "finished"

\* The guard of Game.update.
not_running(gs) == gs # "running"

is_running(gs) == gs = "running"

engine == <<game_state, tick, winner, cars, obstacles>>
gather == <<task, handed, act, pre>>
budget == <<choices, inits>>
outside == <<num_lanes, snapshot>>
vars == <<game_state, tick, winner, cars, obstacles, pc, op, task, handed, act, pre,
          choices, inits, num_lanes, snapshot>>

CarIdx == 1..Len(cars)

Blank(n, v) == [k \in 1..n |-> v]

\* Game.__init__
Init ==
    /\ game_state = "initialized"
    /\ tick = 0
    /\ winner = None
    /\ cars = << >>
    /\ obstacles = << >>
    /\ pc = "idle"
    /\ op = "none"
    /\ task = << >>
    /\ handed = << >>
    /\ act = << >>
    /\ pre = << >>
    /\ choices = 0
    /\ inits = 0
    /\ num_lanes = NUM_LANES
    /\ snapshot = None

\* The speeds of `sp` that are not the default draw.
OffDefault(sp) == Cardinality({k \in DOMAIN sp : sp[k] # MinSpeed})

\* Game.initialize, with the speeds the four Car constructors draw.
Initialize ==
    /\ pc = "idle"
    /\ inits < MaxInits
    /\ \E sp \in [1..Len(starting_lanes) -> CarSpeeds] :
          /\ choices + OffDefault(sp) <= MaxChoices
          /\ choices' = choices + OffDefault(sp)
          /\ cars' = [k \in 1..Len(starting_lanes) |->
                      Car(starting_lanes[k], starting_lanes[k], sp[k])]
    /\ game_state' = "running"
    /\ op' = "initialize"
    /\ inits' = inits + 1
    /\ task' = Blank(Len(starting_lanes), "idle")
    /\ handed' = Blank(Len(starting_lanes), None)
    /\ act' = Blank(Len(starting_lanes), NoAction)
    /\ pre' = cars'
    /\ UNCHANGED <<tick, winner, obstacles, pc, outside>>

\* Game.update up to its first suspension: the early return, or the gather
\* that makes one task per car and awaits them.
Update ==
    /\ pc = "idle"
    /\ IF not_running(game_state)
       THEN /\ op' = "update_noop"
            /\ UNCHANGED <<pc, task, pre>>
       ELSE /\ op' = "update"
            /\ pc' = "gather"
            /\ task' = Blank(Len(cars), "new")
            /\ pre' = cars
    /\ UNCHANGED <<engine, handed, act, budget, outside>>

NextTask(k) == task[k] = "new" /\ \A j \in 1..(k - 1) : task[j] # "new"
AllStarted == \A k \in CarIdx : task[k] # "new"
\* A faulty all_done: the gather is done when every task has started.
all_done_when_started == \A k \in CarIdx : task[k] # "new"

\* asyncio.gather is done when every task is.
all_done == \A k \in CarIdx : task[k] = "done"
some_failed == \E k \in CarIdx : task[k] = "failed"

CountsLaneChange(a) == IF a.type = "lane_change" THEN 1 ELSE 0

\* The first step of car k's task when the car is not active: it returns.
TaskSkip(k) ==
    /\ pc = "gather"
    /\ NextTask(k)
    /\ cars[k].status # "active"
    /\ task' = [task EXCEPT ![k] = "done"]
    /\ UNCHANGED <<engine, pc, op, handed, act, pre, budget, outside>>

\* The first step of car k's task when the controller answers without suspending:
\* the whole of update_async.
TaskSync(k, a) ==
    /\ pc = "gather"
    /\ NextTask(k)
    /\ cars[k].status = "active"
    /\ choices + CountsLaneChange(a) <= MaxChoices
    /\ handed' = [handed EXCEPT ![k] = Some(get_state(cars[k]))]
    /\ cars' = apply_update(cars, k, a)
    /\ act' = [act EXCEPT ![k] = a]
    /\ task' = [task EXCEPT ![k] = "done"]
    /\ choices' = choices + CountsLaneChange(a)
    /\ UNCHANGED <<game_state, tick, winner, obstacles, pc, op, pre, inits, outside>>

\* The first step of car k's task when the controller suspends.
TaskSuspend(k) ==
    /\ pc = "gather"
    /\ NextTask(k)
    /\ cars[k].status = "active"
    /\ choices < MaxChoices
    /\ handed' = [handed EXCEPT ![k] = Some(get_state(cars[k]))]
    /\ task' = [task EXCEPT ![k] = "pending"]
    /\ choices' = choices + 1
    /\ UNCHANGED <<engine, pc, op, act, pre, inits, outside>>

\* A suspended controller answers: the rest of update_async.
PolicyReturn(k, a) ==
    /\ pc = "gather"
    /\ AllStarted
    /\ task[k] = "pending"
    /\ choices + CountsLaneChange(a) <= MaxChoices
    /\ cars' = apply_update(cars, k, a)
    /\ act' = [act EXCEPT ![k] = a]
    /\ task' = [task EXCEPT ![k] = "done"]
    /\ choices' = choices + CountsLaneChange(a)
    /\ UNCHANGED <<game_state, tick, winner, obstacles, pc, op, handed, pre, inits, outside>>

Tampered(r) == [r EXCEPT !.lane = -1, !.position = -1, !.status = "tampered"]

\* A suspended controller writes into the record it was handed.
PolicyWrite(k) ==
    /\ pc = "gather"
    /\ task[k] = "pending"
    /\ handed[k] # None
    /\ handed[k][1].status # "tampered"
    /\ choices < MaxChoices
    /\ handed' = [handed EXCEPT ![k] = Some(Tampered(handed[k][1]))]
    /\ cars' = cars_after_policy_write(cars, k, Tampered(handed[k][1]))
    /\ choices' = choices + 1
    /\ UNCHANGED <<game_state, tick, winner, obstacles, pc, op, task, act, pre, inits, outside>>

\* A controller call raises, at once or after suspending: update_async has no
\* handler, the task ends with the exception.
PolicyRaise(k) ==
    /\ pc = "gather"
    /\ \/ NextTask(k) /\ cars[k].status = "active"
       \/ AllStarted /\ task[k] = "pending"
    /\ handed' = [handed EXCEPT ![k] = IF task[k] = "new"
                                        THEN Some(get_state(cars[k]))
                                        ELSE handed[k]]
    /\ task' = [task EXCEPT ![k] = "failed"]
    /\ UNCHANGED <<engine, pc, op, act, pre, budget, outside>>

\* The rest of Game.update once the gather is done: obstacles, spawn,
\* collisions, win condition, tick.
FinishTick ==
    /\ pc = "gather"
    /\ all_done
    /\ \E spawned \in {None} \cup {Some(o) : o \in create_random(0)} :
          /\ spawned # None => choices < MaxChoices
          /\ obstacles' = update_obstacles(obstacles) \o spawned
          /\ choices' = choices + Len(spawned)
    /\ cars' = check_collisions(cars, obstacles')
    /\ game_state' = check_win_condition(cars', game_state, winner).game_state
    /\ winner' = check_win_condition(cars', game_state, winner).winner
    /\ tick' = tick + 1
    /\ pc' = "idle"
    /\ task' = Blank(Len(cars), "idle")
    /\ handed' = Blank(Len(cars), None)
    /\ act' = Blank(Len(cars), NoAction)
    /\ pre' = cars'
    /\ UNCHANGED <<op, inits, outside>>

\* The gather passes the first exception of a task on to Game.update, which
\* has no handler either: update raises and main exits.
UpdateRaises ==
    /\ pc = "gather"
    /\ AllStarted
    /\ some_failed
    /\ pc' = "raised"
    /\ UNCHANGED <<engine, op, gather, budget, outside>>

\* The driver is interrupted while update is suspended in the gather: the
\* exception ends update at its await.
Interrupt ==
    /\ pc = "gather"
    /\ AllStarted
    /\ pc' = "interrupted"
    /\ UNCHANGED <<engine, op, gather, budget, outside>>

\* Game.initialize as main calls it: once, on the new engine.
InitializeOnce == game_state = "initialized" /\ Initialize

\* Game.update as main calls it: while game.is_running().
DriverUpdate == is_running(game_state) /\ Update

\* One engine and one race with controllers that answer, at once or after
\* suspending: update() called in any phase, and the steps of the tick.
Next ==
    \/ InitializeOnce
    \/ Update
    \/ \E k \in CarIdx : TaskSkip(k)
    \/ \E k \in CarIdx : \E a \in Actions : TaskSync(k, a)
    \/ \E k \in CarIdx : TaskSuspend(k)
    \/ \E k \in CarIdx : \E a \in Actions : PolicyReturn(k, a)
    \/ \E k \in CarIdx : PolicyWrite(k)
    \/ FinishTick

Spec == Init /\ [][Next]_vars

\* The same race with controller calls that raise.
NextFail ==
    \/ Next
    \/ \E k \in CarIdx : PolicyRaise(k)
    \/ UpdateRaises

SpecFail == Init /\ [][NextFail]_vars

\* The same race with a driver that is interrupted in mid-tick.
NextInterrupt ==
    \/ Next
    \/ Interrupt

SpecInterrupt == Init /\ [][NextInterrupt]_vars

\* The engine with the shipped controller, which never suspends, and with
\* initialize() called in any phase.
NextReinit ==
    \/ Initialize
    \/ Update
    \/ \E k \in CarIdx : TaskSkip(k)
    \/ \E k \in CarIdx : \E a \in Actions : TaskSync(k, a)
    \/ FinishTick

SpecReinit == Init /\ [][NextReinit]_vars

\* The loop of main: initialize once, update while running.  The loop keeps
\* calling update, the event loop runs every task that is ready, and every
\* controller call answers.
NextDriver ==
    \/ InitializeOnce
    \/ DriverUpdate
    \/ \E k \in CarIdx : TaskSkip(k)
    \/ \E k \in CarIdx : \E a \in Actions : TaskSync(k, a)
    \/ \E k \in CarIdx : TaskSuspend(k)
    \/ \E k \in CarIdx : \E a \in Actions : PolicyReturn(k, a)
    \/ \E k \in CarIdx : PolicyWrite(k)
    \/ FinishTick

TaskStarts ==
    \E k \in CarIdx : TaskSkip(k) \/ TaskSuspend(k) \/ \E a \in Actions : TaskSync(k, a)
PolicyAnswers == \E k \in CarIdx : \E a \in Actions : PolicyReturn(k, a)

SpecLive ==
    /\ Init
    /\ [][NextDriver]_vars
    /\ WF_vars(InitializeOnce)
    /\ WF_vars(DriverUpdate)
    /\ WF_vars(TaskStarts)
    /\ WF_vars(PolicyAnswers)
    /\ WF_vars(FinishTick)

\* A race restarted on the same engine once it is over, with the shipped
\* controller: initialize() on an engine that is not running.
Restart == game_state # "running" /\ Initialize

NextRestart ==
    \/ Restart
    \/ DriverUpdate
    \/ \E k \in CarIdx : TaskSkip(k)
    \/ \E k \in CarIdx : \E a \in Actions : TaskSync(k, a)
    \/ FinishTick

SpecRestart == Init /\ [][NextRestart]_vars

\* A car as it is after the first tick of a race, at the default speed: it has
\* moved once, in the lane `lane`, and has crashed there or not.
CarAfterFirstTick(id, lane, crashed) ==
    IF crashed
    THEN crash(move_down(Car(id, lane, MinSpeed)))
    ELSE move_down(Car(id, lane, MinSpeed))

\* The race after a first tick in which an obstacle was spawned in lane 1: car 1
\* has run into it, cars 0 and 2 have if they changed into lane 1, and car 3 is
\* in lane 3 or has changed into lane 2.
InitPileUp ==
    /\ game_state = "running"
    /\ tick = 1
    /\ winner = None
    /\ num_lanes = NUM_LANES
    /\ \E in0, in2 \in BOOLEAN : \E lane3 \in {2, 3} :
          cars = << CarAfterFirstTick(0, IF in0 THEN 1 ELSE 0, in0),
                    CarAfterFirstTick(1, 1, TRUE),
                    CarAfterFirstTick(2, IF in2 THEN 1 ELSE 2, in2),
                    CarAfterFirstTick(3, lane3, FALSE) >>
    /\ \E o \in create_random(0) : o.lane = 1 /\ obstacles = <<o>>
    /\ pc = "idle"
    /\ op = "update"
    /\ task = Blank(Len(starting_lanes), "idle")
    /\ handed = Blank(Len(starting_lanes), None)
    /\ act = Blank(Len(starting_lanes), NoAction)
    /\ pre = cars
    /\ choices = 0
    /\ inits = 1
    /\ snapshot = None

\* The rest of that race, with the shipped controller.
NextPileUp ==
    \/ DriverUpdate
    \/ \E k \in CarIdx : TaskSkip(k)
    \/ \E k \in CarIdx : \E a \in Actions : TaskSync(k, a)
    \/ FinishTick

SpecPileUp == InitPileUp /\ [][NextPileUp]_vars

\* ------------------------------------------------------------ snapshot
\* Car.to_dict: a new dict of the car's numbers and strings; the symbol is the
\* entry of CAR_SYMBOLS the id selects.
car_to_dict(c) ==
    [id |-> c.id, lane |-> c.lane, position |-> c.position, speed |-> c.speed,
     symbol |-> c.id % 4, status |-> c.status]

\* Obstacle.to_dict: a new dict of lane, position and type (and the symbol, which
\* the model does not carry).
obstacle_to_dict(o) == [lane |-> o.lane, position |-> o.position, type |-> o.type]

\* What a snapshot may have in common with the engine: the two lists, the
\* records in them, the winner's record.
Shareable == {"cars", "car", "obstacles", "obstacle", "winner"}

\* A faulty get_state_snapshot: it hands out the engine's own lists and objects.
get_state_snapshot_shallow(t, gs, cs, obs, w) ==
    [tick |-> t, game_state |-> gs, track_length |-> TrackEnd,
     cars |-> [k \in 1..Len(cs) |-> car_to_dict(cs[k])],
     obstacles |-> [i \in 1..Len(obs) |-> obstacle_to_dict(obs[i])],
     winner |-> IF w = None THEN None ELSE Some(car_to_dict(w[1])),
     shares |-> Shareable]

\* Game.get_state_snapshot: a new dict; tick, game_state and track_length are
\* immutable values, the lists are built by comprehensions over to_dict(), the
\* winner is a to_dict() of its own.  `shares` is the part of the result that is
\* the engine's own object: nothing.
get_state_snapshot(t, gs, cs, obs, w) ==
    [tick |-> t, game_state |-> gs, track_length |-> TrackEnd,
     cars |-> [k \in 1..Len(cs) |-> car_to_dict(cs[k])],
     obstacles |-> [i \in 1..Len(obs) |-> obstacle_to_dict(obs[i])],
     winner |-> IF w = None THEN None ELSE Some(car_to_dict(w[1])),
     shares |-> {}]

\* The snapshot `s` after its holder has written into the part `w` of it: a
\* list is emptied, a record gets another lane.
written(s, w) ==
    CASE w = "cars" -> [s EXCEPT !.cars = << >>]
      [] w = "car" -> [s EXCEPT !.cars[1].lane = -1]
      [] w = "obstacles" -> [s EXCEPT !.obstacles = << >>]
      [] w = "obstacle" -> [s EXCEPT !.obstacles[1].lane = -1]
      [] w = "winner" -> [s EXCEPT !.winner = Some([s.winner[1] EXCEPT !.lane = -1])]

\* Whether the part `w` of the snapshot `s` is there to be written.
writable(s, w) ==
    CASE w = "cars" -> s.cars # << >>
      [] w = "car" -> s.cars # << >> /\ s.cars[1].lane # -1
      [] w = "obstacles" -> s.obstacles # << >>
      [] w = "obstacle" -> s.obstacles # << >> /\ s.obstacles[1].lane # -1
      [] w = "winner" -> s.winner # None /\ s.winner[1].lane # -1

\* The engine's cars, obstacles and winner after that write: the write lands in
\* the engine where the snapshot shares the object written.
cars_after_write(s, w, cs) ==
    IF w \notin s.shares \/ cs = << >> THEN cs
    ELSE CASE w = "cars" -> << >>
           [] w = "car" -> [cs EXCEPT ![1].lane = -1]
           [] OTHER -> cs

obstacles_after_write(s, w, obs) ==
    IF w \notin s.shares \/ obs = << >> THEN obs
    ELSE CASE w = "obstacles" -> << >>
           [] w = "obstacle" -> [obs EXCEPT ![1].lane = -1]
           [] OTHER -> obs

winner_after_write(s, w, win) ==
    IF w \in s.shares /\ w = "winner" /\ win # None
    THEN Some([win[1] EXCEPT !.lane = -1])
    ELSE win

\* What the holder of the snapshot `s` reads from it now: the engine's present
\* values where the snapshot shares the engine's objects, its own elsewhere.
snapshot_read(s) ==
    [s EXCEPT
       !.cars = IF "cars" \in s.shares \/ "car" \in s.shares
                THEN [k \in 1..Len(cars) |-> car_to_dict(cars[k])] ELSE s.cars,
       !.obstacles = IF "obstacles" \in s.shares \/ "obstacle" \in s.shares
                     THEN [i \in 1..Len(obstacles) |-> obstacle_to_dict(obstacles[i])]
                     ELSE s.obstacles,
       !.winner = IF "winner" \in s.shares
                  THEN (IF winner = None THEN None ELSE Some(car_to_dict(winner[1])))
                  ELSE s.winner]

\* A caller takes a snapshot between two engine operations, and keeps it.
TakeSnapshot ==
    /\ pc = "idle"
    /\ snapshot = None
    /\ choices < MaxChoices
    /\ snapshot' = Some(get_state_snapshot(tick, game_state, cars, obstacles, winner))
    /\ op' = "get_state_snapshot"
    /\ choices' = choices + 1
    /\ UNCHANGED <<engine, pc, gather, inits, num_lanes>>

\* The holder of the snapshot writes into it.
SnapshotWrite(w) ==
    /\ pc = "idle"
    /\ snapshot # None
    /\ writable(snapshot[1], w)
    /\ snapshot' = Some(written(snapshot[1], w))
    /\ cars' = cars_after_write(snapshot[1], w, cars)
    /\ obstacles' = obstacles_after_write(snapshot[1], w, obstacles)
    /\ winner' = winner_after_write(snapshot[1], w, winner)
    /\ op' = "snapshot_write"
    /\ UNCHANGED <<game_state, tick, pc, gather, budget, num_lanes>>

\* The program of main with the shipped controller and a caller that takes a
\* snapshot and writes into it.
NextSnapshot ==
    \/ InitializeOnce
    \/ DriverUpdate
    \/ \E k \in CarIdx : TaskSkip(k)
    \/ \E k \in CarIdx : \E a \in Actions : TaskSync(k, a)
    \/ FinishTick
    \/ TakeSnapshot
    \/ \E w \in Shareable : SnapshotWrite(w)

SpecSnapshot == Init /\ [][NextSnapshot]_vars

\* The values config.NUM_LANES is given in the model: the shipped 4, one less
\* and one more.
NumLanesConfigs == {NUM_LANES - 1, NUM_LANES, NUM_LANES + 1}

\* config.py is edited before the program starts.
Configure(n) ==
    /\ pc = "idle"
    /\ game_state = "initialized"
    /\ num_lanes # n
    /\ num_lanes' = n
    /\ UNCHANGED <<engine, pc, op, gather, budget, snapshot>>

\* The program of main under each configuration, with the shipped controller.
NextConfig ==
    \/ \E n \in NumLanesConfigs : Configure(n)
    \/ InitializeOnce
    \/ DriverUpdate
    \/ \E k \in CarIdx : TaskSkip(k)
    \/ \E k \in CarIdx : \E a \in Actions : TaskSync(k, a)
    \/ FinishTick

SpecConfig == Init /\ [][NextConfig]_vars

\* ------------------------------------------------------------------ claims

\* C1: in every state between engine operations (after initialize() and after
\* each completed tick()), winner is set if and only if phase = finished and at
\* least one vehicle has status finished.
C1_WinnerIffFinishedWithFinisher ==
    pc = "idle" =>
        ((winner # None) <=> (game_state = "finished" /\ FinishedIdx(cars) # {}))

PhaseRank(gs) ==
    CASE gs = "initialized" -> 0
      [] gs = "running" -> 1
      [] gs = "finished" -> 2

\* C2: over any sequence of initialize() and tick() calls the phase only moves
\* forward along initialized -> running -> finished.
C2_PhaseNeverMovesBack ==
    [][PhaseRank(game_state') >= PhaseRank(game_state)]_vars

\* C3: a call of tick() in a phase other than running returns at once and leaves
\* tick, phase, winner, every vehicle and the obstacle set as they were.
C3_TickIsNoOpUnlessRunning ==
    [][(pc = "idle" /\ game_state # "running" /\ op' # "initialize")
          => (pc' = "idle" /\ UNCHANGED <<tick, game_state, winner, cars, obstacles>>)]_vars

\* A finished race with a winner and an obstacle on the track, on which tick()
\* was called again.
C3_Witness ==
    /\ op = "update_noop"
    /\ game_state = "finished"
    /\ winner # None
    /\ Len(obstacles) > 0
    /\ tick > 0

\* C5: a vehicle whose controller call fails in a tick is treated as having
\* chosen Stay (it keeps its lane and advances), and no exception leaves tick().
C5_PolicyFailureIsStay ==
    /\ pc # "raised"
    /\ \A k \in CarIdx :
          task[k] = "failed" =>
              /\ cars[k].lane = pre[k].lane
              /\ cars[k].position # pre[k].position

\* C6: when the driver is interrupted in mid-tick, the engine is left in the
\* complete pre-tick state or in the complete post-tick state.  The tick in
\* progress has not been counted, so the state left must be the pre-tick one.
C6_InterruptedTickLeavesNoTrace ==
    pc = "interrupted" => (cars = pre /\ \A k \in CarIdx : task[k] # "done")

\* C7 as claimed: no vehicle's lane or position has been changed by a tick while
\* another vehicle's decision for that tick is pending.
C7_NoMoveWhileADecisionIsPending ==
    pc = "gather" =>
        ~ \E j, k \in CarIdx : cars[j] # pre[j] /\ task[k] = "pending"

\* C7 as amended: the obstacle update, spawn, collision resolution, end-condition
\* check and tick increment of a tick wait for the updates of all vehicles; a
\* vehicle's lane and position change when its own decision completes.
C7_TickTailWaitsForEveryUpdate ==
    [][pc = "gather" =>
          /\ (tick' # tick \/ obstacles' # obstacles
                \/ game_state' # game_state \/ winner' # winner)
                 => \A k \in CarIdx : task[k] = "done"
          /\ \A k \in CarIdx :
                cars'[k] # cars[k] =>
                    \/ (task[k] # "done" /\ task'[k] = "done")
                    \/ (\A j \in CarIdx : task[j] = "done")]_vars

\* A vehicle that started later has changed lane and moved while the decision of
\* a vehicle that started earlier is pending, and the tick is not counted yet.
C7_Witness ==
    /\ pc = "gather"
    /\ tick = 0
    /\ obstacles = << >>
    /\ \E j, k \in CarIdx :
          /\ k < j
          /\ task[k] = "pending"
          /\ task[j] = "done"
          /\ cars[j].lane # pre[j].lane
          /\ cars[j].position > pre[j].position

\* What one vehicle's update makes of the vehicle `c` with the action `a`.
Turned(c, a) ==
    IF a.type = "lane_change" /\ (c.lane + a.direction) \in Lanes
    THEN [c EXCEPT !.lane = c.lane + a.direction]
    ELSE c
Advanced(c) ==
    IF c.position + c.speed >= TrackEnd
    THEN [c EXCEPT !.position = TrackEnd, !.status = "finished"]
    ELSE [c EXCEPT !.position = c.position + c.speed]
ExpectedAfter(c, a) ==
    IF c.status = "active" /\ a \in Actions THEN Advanced(Turned(c, a)) ELSE c

\* C8: at every point of the decision step each vehicle is either as it was
\* before the tick or as its own pre-tick state and its own action make it, in
\* whatever order the updates complete.
C8_UpdateOrderDoesNotMatter ==
    pc = "gather" =>
        \A k \in CarIdx :
            cars[k] = IF task[k] = "done"
                      THEN ExpectedAfter(pre[k], act[k])
                      ELSE pre[k]

\* The updates complete out of the order they started in: the first vehicle's
\* controller call is still suspended when every other vehicle has been updated.
C8_Witness ==
    /\ pc = "gather"
    /\ task[1] = "pending"
    /\ cars[1] = pre[1]
    /\ \A j \in CarIdx \ {1} :
          /\ task[j] = "done"
          /\ act[j] \in Actions
          /\ cars[j].position = pre[j].position + pre[j].speed
    /\ \E j \in CarIdx : act[j] = LaneChange(-1) /\ cars[j].lane = pre[j].lane - 1

\* C9: the record a controller holds in a tick is the vehicle's own state as of
\* the start of the tick, whatever other vehicles have done since, and a write
\* into the record does not reach the vehicle.
C9_PolicySeesPreTickCopy ==
    \A k \in CarIdx :
        /\ handed[k] # None =>
              \/ handed[k] = Some(pre[k])
              \/ handed[k] = Some(Tampered(pre[k]))
        /\ task[k] = "pending" => cars[k] = pre[k]

\* A controller has written into its record while another vehicle had already
\* moved in the same tick.
C9_Witness ==
    /\ pc = "gather"
    /\ \E j, k \in CarIdx :
          /\ j < k
          /\ cars[j] # pre[j]
          /\ task[k] = "pending"
          /\ handed[k] = Some(Tampered(pre[k]))
          /\ cars[k] = pre[k]

\* ceil(trackLength / 0.5): the ticks the slowest car needs for the track.
TickBound == 2 * TRACK_LENGTH

\* C4: when the driver keeps calling tick() the race reaches phase = finished,
\* after at most ceil(trackLength / minimum speed) ticks, and the driver loop
\* then calls tick() no more.
C4_RaceFinishesWithinTickBound ==
    /\ <>(game_state = "finished")
    /\ [](tick <= TickBound)
    /\ []((pc = "idle" /\ tick = TickBound) => game_state = "finished")
    /\ [][game_state = "finished" => UNCHANGED vars]_vars

\* A race that took all of the bound's ticks and has a winner.
C4_Witness ==
    /\ game_state = "finished"
    /\ tick = TickBound
    /\ winner # None
    /\ \E k \in CarIdx : cars[k].status = "crashed"

\* C10: when vehicles are finished at the end-condition check of a tick, the
\* phase is finished once that tick is complete and the winner is the finished
\* vehicle with the lowest id.
C10_LowestFinishedIdWins ==
    (pc = "idle" /\ FinishedIdx(cars) # {}) =>
        /\ game_state = "finished"
        /\ winner # None
        /\ \E k \in FinishedIdx(cars) : winner[1] = cars[k]
        /\ \A k \in FinishedIdx(cars) : winner[1].id <= cars[k].id

\* Two vehicles finished in the same tick, the one with the higher id being the
\* faster, behind a crashed vehicle of a lower id yet: the slower one has won.
C10_Witness ==
    /\ pc = "idle"
    /\ game_state = "finished"
    /\ \E i, j, k \in CarIdx :
          /\ i < j /\ j < k
          /\ cars[i].status = "crashed"
          /\ cars[j].status = "finished"
          /\ cars[k].status = "finished"
          /\ cars[k].speed > cars[j].speed
          /\ winner = Some(cars[j])

\* C11: after a completed tick in which no vehicle is finished, the phase is
\* finished with no winner if every vehicle is crashed, and is still running if
\* some vehicle is active.
C11_AllCrashedEndsWithoutWinner ==
    (pc = "idle" /\ tick > 0 /\ FinishedIdx(cars) = {}) =>
        IF \A k \in CarIdx : cars[k].status = "crashed"
        THEN game_state = "finished" /\ winner = None
        ELSE game_state = "running"

\* Every vehicle has crashed, the last one in a later tick than the others.
C11_Witness ==
    /\ pc = "idle"
    /\ tick > 1
    /\ game_state = "finished"
    /\ winner = None
    /\ \A k \in CarIdx : cars[k].status = "crashed"
    /\ \E k \in CarIdx : cars[k].position > MinSpeed

\* C12: a vehicle's position never decreases, within a tick and from one tick
\* to the next, and it stays what it was when the vehicle was crashed or finished
\* before the tick.
C12_PositionNeverDecreases ==
    /\ [](\A k \in CarIdx :
            /\ cars[k].position >= pre[k].position
            /\ pre[k].status # "active" => cars[k].position = pre[k].position)
    /\ [][\A k \in (DOMAIN cars) \cap (DOMAIN cars') :
            /\ cars'[k].position >= cars[k].position
            /\ cars[k].status # "active" => cars'[k].position = cars[k].position]_vars

\* In the tick after its crash a vehicle has stayed where it was while another
\* vehicle has advanced.
C12_Witness ==
    /\ pc = "gather"
    /\ all_done
    /\ \E j, k \in CarIdx :
          /\ pre[k].status = "crashed"
          /\ cars[k].position = pre[k].position
          /\ cars[k].position > 0
          /\ pre[j].status = "active"
          /\ cars[j].position > pre[j].position

\* C13: for a vehicle that is crashed or finished, move_down, switch_lane,
\* update_async and every step of a tick leave the vehicle as it is, and the
\* controller is not asked; crash on an active vehicle changes status and speed
\* only.
C13_OnlyActiveVehiclesChange ==
    /\ [](\A k \in CarIdx :
            IF cars[k].status # "active"
            THEN /\ move_down(cars[k]) = cars[k]
                 /\ \A d \in {-1, 1} : switch_lane(cars[k], d) = cars[k]
            ELSE crash(cars[k]) =
                     [cars[k] EXCEPT !.status = crash(cars[k]).status,
                                     !.speed = crash(cars[k]).speed])
    /\ [](\A k \in CarIdx :
            (pc = "gather" /\ pre[k].status # "active")
                => (cars[k] = pre[k] /\ handed[k] = None /\ act[k] = NoAction))
    /\ [][\A k \in (DOMAIN cars) \cap (DOMAIN cars') :
            /\ cars[k].status # "active" => cars'[k] = cars[k]
            /\ (cars[k].status = "active" /\ cars'[k].status = "crashed")
                  => (cars'[k].lane = cars[k].lane
                        /\ cars'[k].position = cars[k].position)]_vars

\* A crashed vehicle that is not in lane 0 has been passed over by a tick in
\* which an active vehicle was updated.
C13_Witness ==
    /\ pc = "gather"
    /\ \E j, k \in CarIdx :
          /\ pre[k].status = "crashed"
          /\ pre[k].lane > 0
          /\ task[k] = "done"
          /\ pre[j].status = "active"
          /\ task[j] = "done"
          /\ handed[j] # None

\* C14: in every reachable state and for every configured number of lanes, every
\* vehicle's lane is at least 0 and less than the number of lanes.
C14_LaneWithinConfiguredLanes ==
    \A k \in CarIdx : 0 <= cars[k].lane /\ cars[k].lane < num_lanes

\* C17: after initialize() there are as many vehicles as lanes are configured,
\* the i-th with id i, lane i, position 0 and status active, and the phase is
\* running.
C17_InitializeFillsEveryLane ==
    op = "initialize" =>
        /\ Len(cars) = num_lanes
        /\ \A k \in CarIdx :
              /\ cars[k].id = k - 1
              /\ cars[k].lane = k - 1
              /\ cars[k].position = 0
              /\ cars[k].status = "active"
        /\ game_state = "running"

\* Where an obstacle is after the obstacle update of a tick.
MovedTo(o) == IF o.type = "moving" THEN o.position + o.speed ELSE o.position

RECURSIVE KeptAfterMove(_)
\* The obstacles of `obs` that are within [0, trackLength] once moved, in order.
KeptAfterMove(obs) ==
    IF obs = << >> THEN << >>
    ELSE (IF 0 <= MovedTo(Head(obs)) /\ MovedTo(Head(obs)) <= TrackEnd
          THEN << [Head(obs) EXCEPT !.position = MovedTo(Head(obs))] >>
          ELSE << >>) \o KeptAfterMove(Tail(obs))

\* C15: after every completed tick every obstacle is within [0, trackLength];
\* the tick keeps exactly the obstacles that are within that range once moved,
\* one at trackLength included, and adds at most one new obstacle at 0.
C15_ObstaclesStayOnTrack ==
    /\ [](pc = "idle" =>
            \A i \in 1..Len(obstacles) :
                0 <= obstacles[i].position /\ obstacles[i].position <= TrackEnd)
    /\ [][(pc = "gather" /\ pc' = "idle") =>
            /\ Len(obstacles') - Len(KeptAfterMove(obstacles)) \in {0, 1}
            /\ SubSeq(obstacles', 1, Len(KeptAfterMove(obstacles)))
                  = KeptAfterMove(obstacles)
            /\ \A i \in (Len(KeptAfterMove(obstacles)) + 1)..Len(obstacles') :
                  obstacles'[i].position = 0]_vars

\* After a completed tick of a restarted race an obstacle is exactly at the end
\* of the track.
C15_Witness ==
    /\ pc = "idle"
    /\ inits > 1
    /\ game_state = "running"
    /\ \E i \in 1..Len(obstacles) :
          obstacles[i].type = "moving" /\ obstacles[i].position = TrackEnd

\* What the holder of the snapshot reads from it.
SnapshotNow == IF snapshot = None THEN None ELSE Some(snapshot_read(snapshot[1]))

\* C16: the snapshot holds the engine's values as of the call; a write into a
\* snapshot leaves tick, phase, winner, vehicles and obstacles of the engine as
\* they are; and no engine operation changes what a snapshot already returned
\* reads as.
C16_SnapshotIsIndependentCopy ==
    /\ [](op = "get_state_snapshot" =>
            /\ snapshot[1].tick = tick
            /\ snapshot[1].game_state = game_state
            /\ Len(snapshot[1].cars) = Len(cars)
            /\ \A k \in CarIdx :
                  /\ snapshot[1].cars[k].lane = cars[k].lane
                  /\ snapshot[1].cars[k].position = cars[k].position
                  /\ snapshot[1].cars[k].status = cars[k].status
            /\ Len(snapshot[1].obstacles) = Len(obstacles)
            /\ (snapshot[1].winner = None) <=> (winner = None))
    /\ [][op' = "snapshot_write" => UNCHANGED engine]_vars
    /\ [][(snapshot # None /\ op' \notin {"get_state_snapshot", "snapshot_write"})
            => SnapshotNow' = SnapshotNow]_vars

\* A snapshot taken in the race, with an obstacle in it, has had a vehicle record
\* written and its obstacle list emptied, and the race has since gone on to its
\* end with the obstacle still in the engine.
C16_Witness ==
    /\ snapshot # None
    /\ snapshot[1].game_state = "running"
    /\ snapshot[1].cars # << >>
    /\ snapshot[1].cars[1].lane = -1
    /\ snapshot[1].obstacles = << >>
    /\ obstacles # << >>
    /\ cars[1].lane = 0
    /\ game_state = "finished"
    /\ tick > snapshot[1].tick

\* C18: every tick() begun in the running phase ends by adding exactly 1 to the
\* tick counter, the tick that finishes the race included, and no other step
\* changes the counter.
C18_EveryRunningTickCounts ==
    /\ [][tick' = IF pc = "gather" /\ pc' = "idle" THEN tick + 1 ELSE tick]_vars
    /\ [][pc = "gather" => pc' \in {"gather", "idle"}]_vars
    /\ [][(pc = "idle" /\ game_state = "running" /\ op' = "update")
            => pc' = "gather"]_vars

\* The lane the action `a` takes a vehicle in lane `l` to.
LaneAfter(l, a) ==
    IF a.type = "lane_change" /\ 0 <= l + a.direction /\ l + a.direction < num_lanes
    THEN l + a.direction
    ELSE l

\* C19: a vehicle that was active at the start of a running tick is, once its
\* update is done, at min(old position + speed, trackLength), finished if and
\* only if old position + speed >= trackLength, and in the lane its action leads
\* to even when it finishes in this tick; and when the tick completes every such
\* vehicle has advanced so, once.
C19_ActiveVehicleAdvancesOnce ==
    /\ [](pc = "gather" =>
            \A k \in CarIdx :
                (pre[k].status = "active" /\ task[k] = "done") =>
                    /\ cars[k].position =
                          IF pre[k].position + pre[k].speed < TrackEnd
                          THEN pre[k].position + pre[k].speed
                          ELSE TrackEnd
                    /\ (cars[k].status = "finished")
                          <=> (pre[k].position + pre[k].speed >= TrackEnd)
                    /\ cars[k].status \in {"active", "finished"}
                    /\ cars[k].lane = LaneAfter(pre[k].lane, act[k])
                    /\ cars[k].speed = pre[k].speed)
    /\ [][(pc = "gather" /\ pc' = "idle") =>
            \A k \in CarIdx :
                pre[k].status = "active" =>
                    cars'[k].position =
                        IF pre[k].position + pre[k].speed < TrackEnd
                        THEN pre[k].position + pre[k].speed
                        ELSE TrackEnd]_vars

\* A vehicle has changed lane and reached the finish line in the same tick, and
\* another one, which would have gone past the line, has been put on it.
C19_Witness ==
    /\ pc = "gather"
    /\ \E j, k \in CarIdx :
          /\ task[k] = "done"
          /\ act[k].type = "lane_change"
          /\ cars[k].lane # pre[k].lane
          /\ cars[k].status = "finished"
          /\ cars[k].position = TrackEnd
          /\ task[j] = "done"
          /\ act[j] = Stay
          /\ pre[j].position + pre[j].speed > TrackEnd
          /\ cars[j].status = "finished"
          /\ cars[j].position = TrackEnd

\* Whether the obstacle `o` is in the lane of the vehicle `c` and less than one
\* track unit from it.
Hits(o, c) ==
    /\ o.lane = c.lane
    /\ o.position - c.position < Scale
    /\ c.position - o.position < Scale

\* C20: the collision resolution of a tick takes each vehicle as it is after
\* this tick's movement and the obstacles as they are after this tick's update,
\* pruning and spawn: an active vehicle becomes crashed, its speed halved once,
\* if and only if one of those obstacles hits it; every other vehicle is left as
\* it is, whatever happens to the rest.
C20_CollisionAfterMoveAndSpawn ==
    [][(pc = "gather" /\ pc' = "idle") =>
          \A k \in CarIdx :
              cars'[k] =
                  IF /\ cars[k].status = "active"
                     /\ \E i \in 1..Len(obstacles') : Hits(obstacles'[i], cars[k])
                  THEN [cars[k] EXCEPT !.status = "crashed",
                                       !.speed = cars[k].speed \div 2]
                  ELSE cars[k]]_vars

\* After a tick one vehicle is crashed with half the default speed, and an active
\* vehicle is in the lane of an obstacle exactly one track unit behind it.
C20_Witness ==
    /\ pc = "idle"
    /\ tick > 0
    /\ \E j, k \in CarIdx : \E i \in 1..Len(obstacles) :
          /\ cars[k].status = "crashed"
          /\ 2 * cars[k].speed = MinSpeed
          /\ cars[j].status = "active"
          /\ obstacles[i].lane = cars[j].lane
          /\ cars[j].position - obstacles[i].position = Scale

\* The directions a lane change is asked in.
Directions == {-2, -1, 1, 2}

\* C21: switch_lane on an active vehicle sets lane to lane + direction when
\* that is at least 0 and less than the number of lanes, and leaves the lane as
\* it is otherwise; id, position, speed and status are as before.  So is the
\* lane of a vehicle whose update in a tick was a lane change.
C21_LaneChangeStopsAtTheEdge ==
    /\ \A k \in CarIdx : \A d \in Directions :
          cars[k].status = "active" =>
              switch_lane(cars[k], d) =
                  IF cars[k].lane + d >= 0 /\ cars[k].lane + d <= num_lanes - 1
                  THEN [cars[k] EXCEPT !.lane = cars[k].lane + d]
                  ELSE cars[k]
    /\ \A k \in CarIdx :
          (pc = "gather" /\ task[k] = "done" /\ act[k].type = "lane_change") =>
              /\ (pre[k].lane + act[k].direction < 0) => cars[k].lane = pre[k].lane
              /\ (pre[k].lane + act[k].direction >= num_lanes)
                    => cars[k].lane = pre[k].lane
              /\ (pre[k].lane + act[k].direction \in 0..(num_lanes - 1))
                    => cars[k].lane = pre[k].lane + act[k].direction

\* In one tick the vehicle in lane 0 was asked to the left and is in lane 0, and
\* the vehicle in the last lane was asked to the right and is in the last lane.
C21_Witness ==
    /\ pc = "gather"
    /\ \E j, k \in CarIdx :
          /\ task[j] = "done"
          /\ pre[j].lane = 0
          /\ act[j] = LaneChange(-1)
          /\ cars[j].lane = 0
          /\ cars[j].position > pre[j].position
          /\ task[k] = "done"
          /\ pre[k].lane = num_lanes - 1
          /\ act[k] = LaneChange(1)
          /\ cars[k].lane = num_lanes - 1

IsStatic(o) == o.type = "static"
IsMoving(o) == o.type = "moving"

\* The moving obstacle `o` one update later.
OneUpdateOn(o) == [o EXCEPT !.position = o.position + o.speed]

\* Whether the sequence `s` is the sequence `r`, or `r` and one more element.
SameOrOneMore(s, r) ==
    /\ Len(s) \in {Len(r), Len(r) + 1}
    /\ SubSeq(s, 1, Len(r)) = r

\* C22: a static obstacle has speed 0 and is at position 0, where it was
\* spawned, in every state; a completed tick keeps every static obstacle as it
\* is, moves every moving obstacle by its speed, lane and kind unchanged, removes
\* only moving obstacles, and adds at most one obstacle, at position 0 in a lane
\* of the track; no other step touches the obstacles.
C22_StaticObstaclesNeverMove ==
    /\ [](\A i \in 1..Len(obstacles) :
            /\ obstacles[i].lane \in 0..(num_lanes - 1)
            /\ obstacles[i].type \in {"static", "moving"}
            /\ IsStatic(obstacles[i])
                  => (obstacles[i].speed = 0 /\ obstacles[i].position = 0))
    /\ [][IF pc = "gather" /\ pc' = "idle"
          THEN /\ SameOrOneMore(SelectSeq(obstacles', IsStatic),
                                SelectSeq(obstacles, IsStatic))
               /\ \A j \in 1..Len(obstacles') :
                     IsMoving(obstacles'[j]) =>
                         \/ \E i \in 1..Len(obstacles) :
                               /\ IsMoving(obstacles[i])
                               /\ obstacles'[j] = OneUpdateOn(obstacles[i])
                         \/ (j = Len(obstacles') /\ obstacles'[j].position = 0)
               /\ Len(obstacles') <= Len(obstacles) + 1
          ELSE obstacles' = obstacles]_vars

\* In a restarted race a static obstacle of the race before is still at
\* position 0, behind a moving obstacle that has gone down the track.
C22_Witness ==
    /\ pc = "idle"
    /\ inits > 1
    /\ tick > TickBound
    /\ \E i, j \in 1..Len(obstacles) :
          /\ IsStatic(obstacles[i])
          /\ obstacles[i].position = 0
          /\ IsMoving(obstacles[j])
          /\ obstacles[j].position > Scale

\* C23: a vehicle that is finished after the movement step of a tick is finished,
\* and otherwise as it was, after the collision resolution of that tick, whatever
\* obstacle is near the finish line in its lane, and the lowest such vehicle is
\* the winner; and a crashed vehicle stays crashed in every step of its race.
C23_FinishingGoesBeforeCrashing ==
    /\ [][(pc = "gather" /\ pc' = "idle") =>
            /\ \A k \in CarIdx :
                  cars[k].status = "finished" => cars'[k] = cars[k]
            /\ \A k \in CarIdx :
                  (cars[k].status = "finished"
                     /\ \A j \in 1..(k - 1) : cars[j].status # "finished")
                      => winner' = Some(cars[k])]_vars
    /\ [][inits' = inits =>
            \A k \in CarIdx :
                cars[k].status = "crashed" => cars'[k].status = "crashed"]_vars

\* The winner has finished in a lane in which an obstacle lies less than one
\* track unit before the finish line.
C23_Witness ==
    /\ pc = "idle"
    /\ game_state = "finished"
    /\ winner # None
    /\ winner[1].status = "finished"
    /\ \E i \in 1..Len(obstacles) :
          /\ obstacles[i].lane = winner[1].lane
          /\ TrackEnd - obstacles[i].position < Scale
          /\ obstacles[i].position <= TrackEnd
    /\ \E k \in CarIdx : cars[k] = winner[1]

\* C24: between engine operations in the running phase no vehicle is finished
\* and some vehicle is active; and every vehicle that is finished once a tick is
\* complete was active when that tick began.
C24_RunningMeansNoneFinished ==
    /\ []((pc = "idle" /\ game_state = "running") =>
            /\ \A k \in CarIdx : cars[k].status # "finished"
            /\ \E k \in CarIdx : cars[k].status = "active")
    /\ [][(pc = "gather" /\ pc' = "idle") =>
            \A k \in CarIdx :
                cars'[k].status = "finished" => pre[k].status = "active"]_vars

\* A restarted race is running after a completed tick with a crashed vehicle in
\* it; the race before had a winner.
C24_Witness ==
    /\ pc = "idle"
    /\ game_state = "running"
    /\ inits > 1
    /\ op = "update"
    /\ winner # None
    /\ \E j, k \in CarIdx :
          cars[j].status = "crashed" /\ cars[k].status = "active"

\* C25: in the steps of a race a vehicle's status changes only from active to
\* crashed or from active to finished, and its speed changes only in the step
\* that crashes it, to half of what it was; so the speed is the one the vehicle
\* started with, or half of it if the vehicle is crashed.
C25_StatusAndSpeedChangeOnce ==
    /\ [][\A k \in (DOMAIN cars) \cap (DOMAIN cars') :
            /\ cars'[k].status # cars[k].status
                  => (cars[k].status = "active"
                        /\ cars'[k].status \in {"crashed", "finished"})
            /\ (cars[k].status = "active" /\ cars'[k].status = "crashed")
                  => 2 * cars'[k].speed = cars[k].speed
            /\ ~(cars[k].status = "active" /\ cars'[k].status = "crashed")
                  => cars'[k].speed = cars[k].speed]_vars
    /\ [](\A k \in CarIdx :
            IF cars[k].status = "crashed"
            THEN 2 * cars[k].speed \in CarSpeeds
            ELSE cars[k].speed \in CarSpeeds)

\* A race is over with a vehicle that crashed in an earlier tick at half the
\* default speed, and a finished vehicle at the speed it started with.
C25_Witness ==
    /\ pc = "idle"
    /\ game_state = "finished"
    /\ \E j, k \in CarIdx :
          /\ cars[j].status = "crashed"
          /\ 2 * cars[j].speed = MinSpeed
          /\ cars[j].position < Scale
          /\ cars[k].status = "finished"
          /\ cars[k].speed = MinSpeed + 2

\* C26: in every state every vehicle's position is at least 0 and at most the
\* track length, and it is the track length if and only if the vehicle is
\* finished.
C26_FinishedIffOnTheLine ==
    \A k \in CarIdx :
        /\ 0 <= cars[k].position
        /\ cars[k].position <= TrackEnd
        /\ (cars[k].status = "finished") <=> (cars[k].position = TrackEnd)

\* A vehicle whose speed would have taken it past the line is finished on the
\* line, while a crashed vehicle and an active one are short of it.
C26_Witness ==
    \E i, j, k \in CarIdx :
        /\ cars[k].status = "finished"
        /\ cars[k].position = TrackEnd
        /\ pre[k].position + pre[k].speed > TrackEnd
        /\ cars[j].status = "crashed"
        /\ cars[j].position > 0
        /\ cars[i].status = "active"
        /\ cars[i].position > 0

====
